---- MODULE Spec2Model ----
(***************************************************************************)
(* State-machine model of the job-scraper pipeline: ingestion              *)
(* (JobService.scrape_and_store_jobs), matching + dispatch                 *)
(* (JobScheduler.check_and_send_notifications,                             *)
(* NotificationService.send_job_notification) and the retention sweep      *)
(* (JobScheduler.cleanup_old_data), over the tables of app/database.py.    *)
(*                                                                         *)
(* Time is counted in days.  Strings that the matcher inspects are tuples  *)
(* of one-character strings so that ILIKE can be computed.                 *)
(*                                                                         *)
(* State: now (the clock), users / profiles / jobs / notifications /       *)
(* scraping_logs (the committed tables), sends (SMTP send attempts made so *)
(* far, per triple), ing (the session and loop position of each caller of  *)
(* scrape_and_store_jobs), disp (the same for each instance running        *)
(* check_and_send_notifications), sweep (what the last cleanup logged),    *)
(* loop (the thread running JobScheduler.start and the job registry of the *)
(* schedule module), reply (the last request to the profile endpoints of   *)
(* api/users.py and its outcome), hash_seed (the string-hash seed of the    *)
(* running Python process).                                                *)
(*                                                                         *)
(* Specifications: Spec (one instance: ingestion, dispatch, clock),        *)
(* SpecIngest (ingestion with batches that repeat keys and records that    *)
(* fail), SpecIngestRace (scheduled and on-demand ingestion interleaved),  *)
(* SpecRetention (ingestion, clock and sweep), SpecDispatchRace (two       *)
(* instances dispatching), SpecInbox (one instance and a user marking      *)
(* notifications as read), SpecScheduler / SpecSchedulerLive (the loop of  *)
(* start() with start and stop requests; the second with the thread's      *)
(* fairness), SpecMatch (the matcher over every shape of salary bounds),   *)
(* SpecOwners (dispatch over profiles and owners of every activity state), *)
(* SpecKeywords (the matcher over keyword lists and posting texts),        *)
(* SpecProfiles (profiles created, updated and deleted through the API),   *)
(* SpecRestart (ingestion across restarts of the process).                 *)
(***************************************************************************)
EXTENDS Integers, Sequences, FiniteSets, Bags, TLC

VARIABLES now, users, profiles, jobs, notifications, scraping_logs, sends,
          ing, disp, sweep, loop, reply, hash_seed

vars == <<now, users, profiles, jobs, notifications, scraping_logs, sends,
         ing, disp, sweep, loop, reply, hash_seed>>

(***************************************************************************)
(* Bounds of the model                                                     *)
(***************************************************************************)
\* longest list of raw records one adapter returns in one fetch, in the
\* specifications about ingestion alone
MaxBatch == 2
\* the same, in the specifications that also run dispatch, the sweep or a
\* second ingestion
SmallBatch == 1
\* largest id a row of the search_profiles table gets
MaxProfiles == 3
\* most Notification rows the model lets the table hold
MaxNotifications == 3
\* most ScrapingLog rows the model lets the table hold; every committed
\* run adds one row per site
MaxLogs == 4
\* clock readings (days) at which operations are observed: around the
\* retention horizon, and around the lookback window
Instants == {0, 2, 91}
LookbackInstants == {0, 2}

(***************************************************************************)
(* Program constants                                                       *)
(***************************************************************************)
\* timedelta(days=1) of _find_new_jobs_for_profile
LookbackDays == 1
\* timedelta(days=90) of cleanup_old_data
JobRetentionDays == 90
\* timedelta(days=30) of cleanup_old_data
NotificationRetentionDays == 30

\* length of the list scrape_jobs returns when the page has no content
EmptyBatch == 0

\* SQL NULL / Python None for numeric and for string columns
NullNum == -1
NullStr == <<"NULL">>

\* ScraperFactory.scrapers with both sites enabled, in dict insertion order
Sites == <<"linkedin", "indeed">>
SiteSet == {Sites[i] : i \in 1..Len(Sites)}

\* the two callers of scrape_and_store_jobs: the scheduler thread
\* (run_job_scraping) and the POST /scrape handler
Ingestors == {"sched", "api"}
\* two application instances running check_and_send_notifications against
\* the same database; "sched" is the scheduler thread of this instance
Dispatchers == {"sched", "peer"}

(***************************************************************************)
(* Strings                                                                 *)
(***************************************************************************)
Lower(c) ==
    CASE c = "P" -> "p"
      [] c = "Y" -> "y"
      [] c = "A" -> "a"
      [] c = "G" -> "g"
      [] c = "O" -> "o"
      [] OTHER -> c

LowerStr(s) == [i \in 1..Len(s) |-> Lower(s[i])]

\* the LIKE operator: in the pattern "%" stands for any run of characters
\* and "_" for any one character, every other character for itself
RECURSIVE Like(_, _)
Like(s, pattern) ==
    IF pattern = <<>> THEN s = <<>>
    ELSE IF Head(pattern) = "%"
         THEN Like(s, Tail(pattern)) \/ (s # <<>> /\ Like(Tail(s), pattern))
    ELSE IF Head(pattern) = "_"
         THEN s # <<>> /\ Like(Tail(s), Tail(pattern))
    ELSE s # <<>> /\ Head(s) = Head(pattern) /\ Like(Tail(s), Tail(pattern))

\* column.ilike(f'%{pat}%'): pat goes into the pattern as it is; a NULL
\* column never satisfies the predicate
ILike(col, pat) ==
    /\ col # NullStr
    /\ Like(LowerStr(col), <<"%">> \o LowerStr(pat) \o <<"%">>)

(***************************************************************************)
(* Raw records the adapters can return (parse_job_details output)          *)
(***************************************************************************)
\* seeds the interpreter can draw for its string hash when a process
\* starts (PYTHONHASHSEED is not set anywhere); one process keeps its seed
HashSeeds == {"k1", "k2"}
FirstSeed == "k1"

\* hash(text): a value fixed by the text and the seed of the process
StrHash(text, seed) == <<seed>> \o text

\* f"{site}_{hash(f'{title}_{company}_{location}')}"
ExternalId(site, title, company, location, seed) ==
    <<site, StrHash(title \o <<"_">> \o company \o <<"_">> \o location, seed)>>

Raw(site, title, company, smin, smax, seed) ==
    [external_id |-> ExternalId(site, title, company, <<"A">>, seed),
     source_site |-> site, title |-> title,
     company |-> company, description |-> <<>>, location |-> <<"A">>,
     job_type |-> "remote", experience_level |-> "none",
     salary_min |-> smin, salary_max |-> smax]

\* linkedin: one posting, sighted with two different salary texts
\* indeed: one posting that matches no profile keyword on title
Catalog(site, seed) ==
    IF site = "linkedin"
    THEN { Raw("linkedin", <<"P", "y">>, <<"A">>, 100000, 140000, seed),
           Raw("linkedin", <<"P", "y">>, <<"A">>, 90000, 110000, seed) }
    ELSE { Raw("indeed", <<"G", "o">>, <<"p", "y">>, NullNum, NullNum, seed) }

RECURSIVE SeqsUpTo(_, _)
SeqsUpTo(S, n) ==
    IF n = 0 THEN {<<>>}
    ELSE LET shorter == SeqsUpTo(S, n - 1)
         IN  shorter \cup {Append(q, x) : q \in shorter, x \in S}

\* BaseScraper.scrape_jobs as seen by the factory: a list, or an exception
FetchOutcomes(site, n, seed) ==
    {[raised |-> TRUE, jobs |-> <<>>]} \cup
    {[raised |-> FALSE, jobs |-> q] : q \in SeqsUpTo(Catalog(site, seed), n)}

(***************************************************************************)
(* ScraperFactory.scrape_all_sites                                         *)
(***************************************************************************)
\* results[site] = jobs, or [] when the scraper raised
ScrapeAllSites(fetch) ==
    [s \in SiteSet |-> IF fetch[s].raised THEN <<>> ELSE fetch[s].jobs]

(***************************************************************************)
(* JobService._create_job_listing / _update_job_listing                    *)
(***************************************************************************)
\* job_data carries 'scraped_at' (the parse time), which the new row keeps
CreateJobListing(job_data, scraped) ==
    [id |-> 0,
     external_id |-> job_data.external_id,
     source_site |-> job_data.source_site,
     title |-> job_data.title,
     company |-> job_data.company,
     description |-> job_data.description,
     location |-> job_data.location,
     job_type |-> job_data.job_type,
     experience_level |-> job_data.experience_level,
     salary_min |-> job_data.salary_min,
     salary_max |-> job_data.salary_max,
     scraped_at |-> scraped,
     is_active |-> TRUE]

\* mutation: the update leaves scraped_at as it was
UpdateJobListingKeepsTimestamp(job, job_data, t) ==
    [job EXCEPT !.title = job_data.title,
                !.company = job_data.company,
                !.location = job_data.location,
                !.job_type = job_data.job_type,
                !.salary_min = job_data.salary_min,
                !.salary_max = job_data.salary_max,
                !.description = job_data.description,
                !.experience_level = job_data.experience_level]

UpdateJobListing(job, job_data, t) ==
    [job EXCEPT !.title = job_data.title,
                !.company = job_data.company,
                !.location = job_data.location,
                !.job_type = job_data.job_type,
                !.salary_min = job_data.salary_min,
                !.salary_max = job_data.salary_max,
                !.description = job_data.description,
                !.experience_level = job_data.experience_level,
                !.scraped_at = t]

(***************************************************************************)
(* Storage layer: job_listings                                             *)
(***************************************************************************)
RECURSIVE MaxId(_)
MaxId(rows) ==
    IF rows = {} THEN 0
    ELSE LET r == CHOOSE x \in rows : TRUE
             m == MaxId(rows \ {r})
         IN  IF r.id > m THEN r.id ELSE m

\* Integer primary key assigned by the database on INSERT
NextId(rows) == MaxId(rows) + 1

Keys(rows) == {r.external_id : r \in rows}

\* mutation: external_id declared without unique=True
UniqueViolationUnchecked(rows, pending) == FALSE

\* mutation: duplicates are only looked for inside the batch being written,
\* not against the rows other sessions have committed
UniqueViolationWithinBatch(rows, pending) ==
    \E i, k \in 1..Len(pending) :
        i < k /\ pending[i].external_id = pending[k].external_id

\* unique=True on job_listings.external_id, enforced when the flush INSERTs
UniqueViolation(rows, pending) ==
    \/ \E i \in 1..Len(pending) : pending[i].external_id \in Keys(rows)
    \/ \E i, k \in 1..Len(pending) :
          i < k /\ pending[i].external_id = pending[k].external_id

RECURSIVE InsertAll(_, _)
InsertAll(rows, pending) ==
    IF pending = <<>> THEN rows
    ELSE InsertAll(rows \cup {[Head(pending) EXCEPT !.id = NextId(rows)]},
                   Tail(pending))

\* mutation: the UPDATE is issued as DELETE + INSERT under a fresh id
ApplyDirtyReinsert(rows, dirty) ==
    IF dirty = <<>> THEN rows
    ELSE LET d == dirty[Len(dirty)]
             rest == {r \in rows : r.id # d.id}
         IN  rest \cup {[d EXCEPT !.id = NextId(rows)]}

\* UPDATE job_listings ... WHERE id = :id for every modified object
RECURSIVE ApplyDirty(_, _)
ApplyDirty(rows, dirty) ==
    IF dirty = <<>> THEN rows
    ELSE LET d == Head(dirty)
         IN  ApplyDirty({IF r.id = d.id THEN d ELSE r : r \in rows},
                        Tail(dirty))

(***************************************************************************)
(* JobScheduler.start / stop and the job registry of the schedule module   *)
(***************************************************************************)
\* the three jobs _setup_schedule registers
Tasks == {"run_job_scraping", "check_and_send_notifications", "cleanup_old_data"}

\* schedule.jobs: how many times each task is in the module-wide registry
Registered == {t \in Tasks : loop.registry[t] > 0}

\* an exception that leaves a task: db = next(get_db()) raised inside the
\* try, the except branch logged it, and db.close() in the finally branch
\* then finds the local name db unbound
ExceptionsEscapingTasks == {"UnboundLocalError"}

\* mutation: start() without its "except Exception" branch
LoopSurvivesNothing(exc) == FALSE

\* start() lines 227-235: KeyboardInterrupt breaks the loop, every other
\* Exception is logged and the loop goes on after a sleep
LoopSurvives(exc) == exc # "KeyboardInterrupt"

IngestReturned(a) == ing[a].pc \in {"idle", "done", "failed"}

\* mutation: every job is handed to a thread of its own
SchedulerThreadFreeUnchecked == TRUE

\* run_pending calls the jobs one after the other on the scheduler thread
SchedulerThreadFree ==
    /\ IngestReturned("sched")
    /\ disp["sched"].pc = "idle"

\* start() line 228, schedule.run_pending(): the jobs that are due (one of
\* the sets in B) are collected into a list before the first of them runs
RunPending(B) ==
    /\ loop.alive
    /\ SchedulerThreadFree
    /\ loop.batch = {}
    /\ \E due \in B :
          /\ due # {}
          /\ due \subseteq Registered
          /\ loop' = [loop EXCEPT !.batch = due]
    /\ UNCHANGED <<now, users, profiles, jobs, notifications, scraping_logs,
                   sends, ing, disp, sweep, reply, hash_seed>>

\* run_pending calls task t next
Picked(t) ==
    /\ loop.alive
    /\ SchedulerThreadFree
    /\ t \in loop.batch

Taken(t) == [loop EXCEPT !.batch = @ \ {t}]

\* a task that cannot obtain its session: the exception leaves the task
\* and run_pending, the rest of the collected jobs is not run, and start()
\* handles it
TaskFailsToOpenSession(t) ==
    /\ Picked(t)
    /\ \E exc \in ExceptionsEscapingTasks :
          loop' = [loop EXCEPT !.batch = {},
                               !.raised = TRUE,
                               !.alive = LoopSurvives(exc)]
    /\ UNCHANGED <<now, users, profiles, jobs, notifications, scraping_logs,
                   sends, ing, disp, sweep, reply, hash_seed>>

\* mutation: stop() only logs, the registry keeps its jobs
StopSchedulerRequestKeepsJobs ==
    /\ IF ~loop.alive
       THEN loop' = [loop EXCEPT !.response = "stop_refused"]
       ELSE loop' = [loop EXCEPT !.stop_requested = TRUE,
                                 !.response = "stop_ok"]
    /\ UNCHANGED <<now, users, profiles, jobs, notifications, scraping_logs,
                   sends, ing, disp, sweep, reply, hash_seed>>

\* main.py lines 124-135, POST /scheduler/stop: scheduler.stop() is
\* schedule.clear(); the join gives up after its timeout
StopSchedulerRequest ==
    /\ IF ~loop.alive
       THEN loop' = [loop EXCEPT !.response = "stop_refused"]
       ELSE loop' = [loop EXCEPT !.registry = [t \in Tasks |-> 0],
                                 !.stop_requested = TRUE,
                                 !.response = "stop_ok"]
    /\ UNCHANGED <<now, users, profiles, jobs, notifications, scraping_logs,
                   sends, ing, disp, sweep, reply, hash_seed>>

\* main.py lines 109-121, POST /scheduler/start: refused while the thread
\* is alive; otherwise a new JobScheduler registers its three jobs and a
\* new thread runs start()
StartSchedulerRequest ==
    /\ IF loop.alive
       THEN loop' = [loop EXCEPT !.response = "start_refused"]
       ELSE loop' = [loop EXCEPT !.registry = [t \in Tasks |-> @[t] + 1],
                                 !.alive = TRUE,
                                 !.response = "start_ok"]
    /\ UNCHANGED <<now, users, profiles, jobs, notifications, scraping_logs,
                   sends, ing, disp, sweep, reply, hash_seed>>

\* main.py lines 97-106, GET /scheduler/status: "scheduler_running" is
\* scheduler_thread.is_alive()
SchedulerRunning == loop.alive

(***************************************************************************)
(* JobService.scrape_and_store_jobs, one session per caller                *)
(***************************************************************************)
IdleSession ==
    [pc |-> "idle",
     fetch |-> [s \in SiteSet |-> [raised |-> FALSE, jobs |-> <<>>]],
     results |-> [s \in SiteSet |-> <<>>],
     si |-> 1, ri |-> 1,
     pending |-> <<>>, dirty |-> <<>>, logs |-> <<>>, errors |-> <<>>,
     site_new |-> 0, site_updated |-> 0,
     total_found |-> 0, total_new |-> 0, total_updated |-> 0,
     started_at |-> 0]

\* the object the session hands back for a row: the modified copy when the
\* row was already updated in this session (identity map)
SessionView(a, row) ==
    LET hits == {i \in 1..Len(ing[a].dirty) : ing[a].dirty[i].id = row.id}
    IN  IF hits = {} THEN row
        ELSE ing[a].dirty[CHOOSE i \in hits : \A k \in hits : k <= i]

\* lines 21-28: scrape every site, then start the per-site loop
StartIngest(a, n) ==
    /\ IngestReturned(a)
    /\ a = "sched" => Picked("run_job_scraping")
    /\ Cardinality(scraping_logs) + Len(Sites) <= MaxLogs
    /\ loop' = IF a = "sched" THEN Taken("run_job_scraping") ELSE loop
    /\ \E fetch \in [SiteSet -> UNION {FetchOutcomes(s, n, hash_seed) : s \in SiteSet}] :
          /\ \A s \in SiteSet : fetch[s] \in FetchOutcomes(s, n, hash_seed)
          /\ ing' = [ing EXCEPT ![a] =
                 [IdleSession EXCEPT !.pc = "run",
                                     !.fetch = fetch,
                                     !.results = ScrapeAllSites(fetch),
                                     !.started_at = now]]
    /\ UNCHANGED <<now, users, profiles, jobs, notifications, scraping_logs,
                   sends, disp, sweep, reply, hash_seed>>

\* mutation: the counter of new rows is incremented before the row is
\* built, so a record that raises is counted as well
ProcessRecordCountsFirst(a, failures) ==
    LET r == ing[a]
        site == Sites[r.si]
        job_data == r.results[site][r.ri]
        existing == {j \in jobs : j.external_id = job_data.external_id}
    IN  /\ r.pc = "run"
        /\ r.si <= Len(Sites)
        /\ r.ri <= Len(r.results[site])
        /\ \E raises \in failures :
              IF raises
              THEN ing' = [ing EXCEPT ![a].errors = Append(@, [site |-> site, what |-> "record"]),
                                      ![a].site_new = @ + 1,
                                      ![a].ri = @ + 1]
              ELSE IF existing # {}
                   THEN LET job == SessionView(a, CHOOSE j \in existing : TRUE)
                        IN  ing' = [ing EXCEPT
                                ![a].dirty = Append(@, UpdateJobListing(job, job_data, now)),
                                ![a].site_updated = @ + 1,
                                ![a].ri = @ + 1]
                   ELSE ing' = [ing EXCEPT
                                ![a].pending = Append(@, CreateJobListing(job_data, r.started_at)),
                                ![a].site_new = @ + 1,
                                ![a].ri = @ + 1]
        /\ UNCHANGED <<now, users, profiles, jobs, notifications, scraping_logs,
                       sends, disp, sweep, loop, reply, hash_seed>>

\* lines 36-56: one iteration of "for job_data in jobs"; the iteration
\* either stages the record or raises (raises \in failures) and is logged
ProcessRecord(a, failures) ==
    LET r == ing[a]
        site == Sites[r.si]
        job_data == r.results[site][r.ri]
        existing == {j \in jobs : j.external_id = job_data.external_id}
    IN  /\ r.pc = "run"
        /\ r.si <= Len(Sites)
        /\ r.ri <= Len(r.results[site])
        /\ \E raises \in failures :
              IF raises
              THEN ing' = [ing EXCEPT ![a].errors = Append(@, [site |-> site, what |-> "record"]),
                                      ![a].ri = @ + 1]
              ELSE IF existing # {}
                   THEN LET job == SessionView(a, CHOOSE j \in existing : TRUE)
                        IN  ing' = [ing EXCEPT
                                ![a].dirty = Append(@, UpdateJobListing(job, job_data, now)),
                                ![a].site_updated = @ + 1,
                                ![a].ri = @ + 1]
                   ELSE ing' = [ing EXCEPT
                                ![a].pending = Append(@, CreateJobListing(job_data, r.started_at)),
                                ![a].site_new = @ + 1,
                                ![a].ri = @ + 1]
        /\ UNCHANGED <<now, users, profiles, jobs, notifications, scraping_logs,
                       sends, disp, sweep, loop, reply, hash_seed>>

\* mutation: a site that returned no record leaves no ScrapingLog
FinishSiteSkipsEmpty(a) ==
    LET r == ing[a]
        site == Sites[r.si]
        found == Len(r.results[site])
    IN  /\ r.pc = "run"
        /\ r.si <= Len(Sites)
        /\ r.ri > Len(r.results[site])
        /\ ing' = [ing EXCEPT
              ![a].logs = IF found = 0 THEN @ ELSE
                           Append(@, [id |-> 0,
                                     source_site |-> site,
                                     jobs_found |-> found,
                                     jobs_new |-> r.site_new,
                                     jobs_updated |-> r.site_updated,
                                     errors |-> r.errors,
                                     started_at |-> r.started_at,
                                     completed_at |-> now]),
              ![a].total_found = @ + found,
              ![a].total_new = @ + r.site_new,
              ![a].total_updated = @ + r.site_updated,
              ![a].site_new = 0,
              ![a].site_updated = 0,
              ![a].si = @ + 1,
              ![a].ri = 1]
        /\ UNCHANGED <<now, users, profiles, jobs, notifications, scraping_logs,
                       sends, disp, sweep, loop, reply, hash_seed>>

\* lines 58-80: stage the ScrapingLog of the site and add up the totals
FinishSite(a) ==
    LET r == ing[a]
        site == Sites[r.si]
        found == Len(r.results[site])
    IN  /\ r.pc = "run"
        /\ r.si <= Len(Sites)
        /\ r.ri > Len(r.results[site])
        /\ ing' = [ing EXCEPT
              ![a].logs = Append(@, [id |-> 0,
                                     source_site |-> site,
                                     jobs_found |-> found,
                                     jobs_new |-> r.site_new,
                                     jobs_updated |-> r.site_updated,
                                     errors |-> r.errors,
                                     started_at |-> r.started_at,
                                     completed_at |-> now]),
              ![a].total_found = @ + found,
              ![a].total_new = @ + r.site_new,
              ![a].total_updated = @ + r.site_updated,
              ![a].site_new = 0,
              ![a].site_updated = 0,
              ![a].si = @ + 1,
              ![a].ri = 1]
        /\ UNCHANGED <<now, users, profiles, jobs, notifications, scraping_logs,
                       sends, disp, sweep, loop, reply, hash_seed>>

\* mutation: the commit is wrapped in a try whose except branch is empty
ReturnedSummaryAlways(r, committed) ==
    [r EXCEPT !.pc = "done"]

\* what the caller holds once the call is over: the summary dict (lines
\* 90-96), or nothing but the exception when the commit raised
Returned(r, committed) ==
    IF committed
    THEN [IdleSession EXCEPT !.pc = "done",
                             !.total_found = r.total_found,
                             !.total_new = r.total_new,
                             !.total_updated = r.total_updated,
                             !.errors = r.errors]
    ELSE [IdleSession EXCEPT !.pc = "failed"]

\* mutation: db.commit() inside the loop over the sites, after each site
ReadyToCommitPerSite(a) == ing[a].pc = "run" /\ ing[a].si > 1

ReadyToCommit(a) == ing[a].pc = "run" /\ ing[a].si > Len(Sites)

\* lines 87-96: db.commit() and the returned summary; an IntegrityError of
\* the flush rolls the transaction back and leaves the call by exception
CommitIngest(a) ==
    LET r == ing[a]
    IN  /\ ReadyToCommit(a)
        /\ IF UniqueViolation(jobs, r.pending)
           THEN /\ ing' = [ing EXCEPT ![a] = Returned(r, FALSE)]
                /\ UNCHANGED <<jobs, scraping_logs, reply, hash_seed>>
           ELSE /\ jobs' = InsertAll(ApplyDirty(jobs, r.dirty), r.pending)
                /\ scraping_logs' = InsertAll(scraping_logs, r.logs)
                /\ ing' = [ing EXCEPT ![a] = Returned(r, TRUE)]
        /\ UNCHANGED <<now, users, profiles, notifications, sends, disp, sweep, loop, reply, hash_seed>>

(***************************************************************************)
(* JobScheduler._find_new_jobs_for_profile                                 *)
(***************************************************************************)
\* Python truthiness of an optional number / string / list
TruthyNum(x) == x # NullNum /\ x # 0
TruthyStr(x) == x # NullStr /\ x # <<>>

KeywordFilter(job, profile) ==
    profile.keywords # <<>> =>
        \E i \in 1..Len(profile.keywords) :
            \/ ILike(job.title, profile.keywords[i])
            \/ ILike(job.description, profile.keywords[i])
            \/ ILike(job.company, profile.keywords[i])

LocationFilter(job, profile) ==
    TruthyStr(profile.location) => ILike(job.location, profile.location)

JobTypeFilter(job, profile) ==
    (profile.job_type # "none" /\ profile.job_type # "any")
        => job.job_type = profile.job_type

ExperienceFilter(job, profile) ==
    (profile.experience_level # "none" /\ profile.experience_level # "any")
        => job.experience_level = profile.experience_level

\* a comparison with a NULL column is not true in SQL
SalaryFilter(job, profile) ==
    /\ TruthyNum(profile.salary_min) =>
          (job.salary_max # NullNum /\ job.salary_max >= profile.salary_min)
    /\ TruthyNum(profile.salary_max) =>
          (job.salary_min # NullNum /\ job.salary_min <= profile.salary_max)

\* mutation: the query has no scraped_at condition
MatchesAnyAge(job, profile, t) ==
    /\ job.is_active
    /\ KeywordFilter(job, profile)
    /\ LocationFilter(job, profile)
    /\ JobTypeFilter(job, profile)
    /\ ExperienceFilter(job, profile)
    /\ SalaryFilter(job, profile)

Matches(job, profile, t) ==
    /\ job.is_active
    /\ job.scraped_at >= t - LookbackDays
    /\ KeywordFilter(job, profile)
    /\ LocationFilter(job, profile)
    /\ JobTypeFilter(job, profile)
    /\ ExperienceFilter(job, profile)
    /\ SalaryFilter(job, profile)

\* order_by(desc(scraped_at)); rows of equal scraped_at come in id order
RECURSIVE MostRecentFirst(_)
MostRecentFirst(rows) ==
    IF rows = {} THEN <<>>
    ELSE LET first == CHOOSE r \in rows : \A o \in rows :
                          \/ r.scraped_at > o.scraped_at
                          \/ (r.scraped_at = o.scraped_at /\ r.id <= o.id)
         IN  <<first>> \o MostRecentFirst(rows \ {first})

FindNewJobsForProfile(rows, profile, t) ==
    MostRecentFirst({j \in rows : Matches(j, profile, t)})

\* query(...).all() in primary-key order
RECURSIVE InIdOrder(_)
InIdOrder(rows) ==
    IF rows = {} THEN <<>>
    ELSE LET first == CHOOSE r \in rows : \A o \in rows : r.id <= o.id
         IN  <<first>> \o InIdOrder(rows \ {first})

(***************************************************************************)
(* JobScheduler.check_and_send_notifications and                           *)
(* NotificationService.send_job_notification, one session per instance     *)
(***************************************************************************)
NoProfile == [id |-> 0]

IdleDispatcher ==
    [pc |-> "idle", profiles |-> <<>>, profile |-> NoProfile,
     new_jobs |-> <<>>, notification |-> 0, success |-> FALSE]

Triple(u, p, j) == [user_id |-> u, search_profile_id |-> p, job_listing_id |-> j]
TripleOf(n) == Triple(n.user_id, n.search_profile_id, n.job_listing_id)
RowsFor(t) == {n \in notifications : TripleOf(n) = t}

\* mutation: the query of the profiles has no is_active filter
StartCheckEveryProfile(w) ==
    /\ disp[w].pc = "idle"
    /\ w = "sched" => Picked("check_and_send_notifications")
    /\ loop' = IF w = "sched" THEN Taken("check_and_send_notifications") ELSE loop
    /\ disp' = [disp EXCEPT ![w] =
          [IdleDispatcher EXCEPT !.pc = "loop",
                                 !.profiles = InIdOrder(profiles)]]
    /\ UNCHANGED <<now, users, profiles, jobs, notifications, scraping_logs,
                   sends, ing, sweep, reply, hash_seed>>

\* scheduler.py lines 88-96: open a session, load the active profiles
StartCheck(w) ==
    /\ disp[w].pc = "idle"
    /\ w = "sched" => Picked("check_and_send_notifications")
    /\ loop' = IF w = "sched" THEN Taken("check_and_send_notifications") ELSE loop
    /\ disp' = [disp EXCEPT ![w] =
          [IdleDispatcher EXCEPT !.pc = "loop",
                                 !.profiles = InIdOrder({p \in profiles : p.is_active})]]
    /\ UNCHANGED <<now, users, profiles, jobs, notifications, scraping_logs,
                   sends, ing, sweep, reply, hash_seed>>

\* mutation: the loop over the profiles ends after the first profile that
\* has an active owner
NextProfileOnlyFirst(w) ==
    LET d == disp[w]
        profile == Head(d.profiles)
        user == {u \in users : u.id = profile.user_id}
    IN  /\ d.pc = "loop"
        /\ d.new_jobs = <<>>
        /\ d.profiles # <<>>
        /\ IF user = {} \/ \E u \in user : ~u.is_active
           THEN disp' = [disp EXCEPT ![w].profiles = Tail(@)]
           ELSE disp' = [disp EXCEPT
                    ![w].profiles = <<>>,
                    ![w].profile = profile,
                    ![w].new_jobs = FindNewJobsForProfile(jobs, profile, now)]
        /\ UNCHANGED <<now, users, profiles, jobs, notifications, scraping_logs,
                       sends, ing, sweep, loop, reply, hash_seed>>

\* scheduler.py lines 98-106: next profile, its user, its matching jobs
NextProfile(w) ==
    LET d == disp[w]
        profile == Head(d.profiles)
        user == {u \in users : u.id = profile.user_id}
    IN  /\ d.pc = "loop"
        /\ d.new_jobs = <<>>
        /\ d.profiles # <<>>
        /\ IF user = {} \/ \E u \in user : ~u.is_active
           THEN disp' = [disp EXCEPT ![w].profiles = Tail(@)]
           ELSE disp' = [disp EXCEPT
                    ![w].profiles = Tail(@),
                    ![w].profile = profile,
                    ![w].new_jobs = FindNewJobsForProfile(jobs, profile, now)]
        /\ UNCHANGED <<now, users, profiles, jobs, notifications, scraping_logs,
                       sends, ing, sweep, loop, reply, hash_seed>>

\* scheduler.py lines 132-137: all profiles handled, close the session
FinishCheck(w) ==
    /\ disp[w].pc = "loop"
    /\ disp[w].new_jobs = <<>>
    /\ disp[w].profiles = <<>>
    /\ disp' = [disp EXCEPT ![w] = IdleDispatcher]
    /\ UNCHANGED <<now, users, profiles, jobs, notifications, scraping_logs,
                       sends, ing, sweep, loop, reply, hash_seed>>

\* notification_service.py lines 28-46: load user, job and profile, then
\* INSERT the pending Notification and commit
CreateNotification(w) ==
    LET d == disp[w]
        job == Head(d.new_jobs)
        t == Triple(d.profile.user_id, d.profile.id, job.id)
        missing == \/ ~\E u \in users : u.id = t.user_id
                   \/ ~\E j \in jobs : j.id = t.job_listing_id
                   \/ ~\E p \in profiles : p.id = t.search_profile_id
    IN  /\ d.pc = "loop"
        /\ d.new_jobs # <<>>
        /\ IF missing
           THEN /\ disp' = [disp EXCEPT ![w].new_jobs = Tail(@)]
                /\ UNCHANGED notifications
           ELSE /\ Cardinality(notifications) < MaxNotifications
                /\ notifications' = notifications \cup
                      {[id |-> NextId(notifications),
                        user_id |-> t.user_id,
                        job_listing_id |-> t.job_listing_id,
                        search_profile_id |-> t.search_profile_id,
                        status |-> "pending",
                        sent_at |-> now]}
                /\ disp' = [disp EXCEPT ![w].pc = "send",
                                        ![w].notification = NextId(notifications)]
        /\ UNCHANGED <<now, users, profiles, jobs, scraping_logs, sends, ing,
                       sweep, loop, reply, hash_seed>>

CurrentTriple(w) ==
    Triple(disp[w].profile.user_id, disp[w].profile.id, Head(disp[w].new_jobs).id)

\* mutation: a failed send is attempted a second time within the call
SendEmailWithRetry(w) ==
    /\ disp[w].pc = "send"
    /\ \E success \in BOOLEAN :
          /\ disp' = [disp EXCEPT ![w].pc = "record", ![w].success = success]
          /\ sends' = IF success
                      THEN sends (+) SetToBag({CurrentTriple(w)})
                      ELSE sends (+) SetToBag({CurrentTriple(w)})
                                 (+) SetToBag({CurrentTriple(w)})
    /\ UNCHANGED <<now, users, profiles, jobs, notifications, scraping_logs,
                   ing, sweep, loop, reply, hash_seed>>

\* notification_service.py lines 49-50 and 64-92: one SMTP send attempt,
\* which succeeds or fails
SendEmail(w) ==
    /\ disp[w].pc = "send"
    /\ \E success \in BOOLEAN :
          disp' = [disp EXCEPT ![w].pc = "record", ![w].success = success]
    /\ sends' = sends (+) SetToBag({CurrentTriple(w)})
    /\ UNCHANGED <<now, users, profiles, jobs, notifications, scraping_logs,
                   ing, sweep, loop, reply, hash_seed>>

\* mutation: the else branch that stores 'failed' is missing
RecordStatusSuccessOnly(w) ==
    LET d == disp[w]
    IN  /\ d.pc = "record"
        /\ notifications' =
              {IF n.id = d.notification /\ d.success
               THEN [n EXCEPT !.status = "sent"] ELSE n : n \in notifications}
        /\ disp' = [disp EXCEPT ![w].pc = "loop",
                                ![w].new_jobs = Tail(@),
                                ![w].notification = 0]
        /\ UNCHANGED <<now, users, profiles, jobs, scraping_logs, sends, ing,
                       sweep, loop, reply, hash_seed>>

\* notification_service.py lines 51-56: store the outcome and commit
RecordStatus(w) ==
    LET d == disp[w]
        status == IF d.success THEN "sent" ELSE "failed"
    IN  /\ d.pc = "record"
        /\ notifications' =
              {IF n.id = d.notification THEN [n EXCEPT !.status = status] ELSE n
                 : n \in notifications}
        /\ disp' = [disp EXCEPT ![w].pc = "loop",
                                ![w].new_jobs = Tail(@),
                                ![w].notification = 0]
        /\ UNCHANGED <<now, users, profiles, jobs, scraping_logs, sends, ing,
                       sweep, loop, reply, hash_seed>>

\* notification_service.py lines 204-215, behind
\* PUT /notifications/{notification_id}/read
MarkNotificationRead(id) ==
    /\ notifications' =
          {IF n.id = id THEN [n EXCEPT !.status = "read"] ELSE n
             : n \in notifications}
    /\ UNCHANGED <<now, users, profiles, jobs, sends, ing, disp, sweep,
                   scraping_logs, loop, reply, hash_seed>>

(***************************************************************************)
(* JobScheduler.cleanup_old_data                                           *)
(***************************************************************************)
\* scheduler.py line 6 imports get_db, SearchProfile, JobListing and User
\* from app.database; the name Notification is not bound in the module
NotificationImported == FALSE

OldJobs(rows, t) == {j \in rows : j.scraped_at < t - JobRetentionDays}

OldNotifications(rows, t) ==
    {n \in rows : n.sent_at < t - NotificationRetentionDays}

\* mutation: the deletions of the postings are committed on their own,
\* before the notifications are queried
CleanupOldDataInTwoCommits ==
    /\ Picked("cleanup_old_data")
    /\ loop' = Taken("cleanup_old_data")
    /\ jobs' = jobs \ OldJobs(jobs, now)
    /\ IF NotificationImported
       THEN /\ notifications' = notifications \ OldNotifications(notifications, now)
            /\ sweep' = [ran |-> TRUE, at |-> now, committed |-> TRUE]
       ELSE /\ UNCHANGED notifications
            /\ sweep' = [ran |-> TRUE, at |-> now, committed |-> FALSE]
    /\ UNCHANGED <<now, users, profiles, scraping_logs, sends, ing, disp, reply, hash_seed>>

\* the deletes are staged in the session; evaluating the name Notification
\* raises NameError before db.commit(), the except branch logs it and
\* db.close() discards the staged deletes
CleanupOldData ==
    /\ Picked("cleanup_old_data")
    /\ loop' = Taken("cleanup_old_data")
    /\ IF NotificationImported
       THEN /\ jobs' = jobs \ OldJobs(jobs, now)
            /\ notifications' = notifications \ OldNotifications(notifications, now)
            /\ sweep' = [ran |-> TRUE, at |-> now, committed |-> TRUE]
       ELSE /\ UNCHANGED <<jobs, notifications>>
            /\ sweep' = [ran |-> TRUE, at |-> now, committed |-> FALSE]
    /\ UNCHANGED <<now, users, profiles, scraping_logs, sends, ing, disp, reply, hash_seed>>

(***************************************************************************)
(* Clock, initial state, next-state relation                               *)
(***************************************************************************)
Advance(T) ==
    /\ \E t \in T : t > now /\ now' = t
    /\ UNCHANGED <<users, profiles, jobs, notifications, scraping_logs,
                   sends, ing, disp, sweep, loop, reply, hash_seed>>

Profile(id, user, keywords, smin, smax) ==
    [id |-> id, user_id |-> user, keywords |-> keywords, location |-> NullStr,
     job_type |-> "any", experience_level |-> "any",
     salary_min |-> smin, salary_max |-> smax, is_active |-> TRUE]

(***************************************************************************)
(* The profile endpoints of api/users.py                                   *)
(***************************************************************************)
NoRequest == [op |-> "none", keywords |-> <<>>, status |-> "none"]

\* mutation: SearchProfileCreate has no keywords validator
ValidKeywordsUnchecked(v) == TRUE

\* SearchProfileCreate.validate_keywords: `if not v: raise ValueError`
ValidKeywords(v) == v # <<>>

\* POST /users/{user_id}/profiles: the body is validated before the handler
\* runs; the handler answers 404 for an unknown user, else inserts the row
CreateSearchProfile(user_id, keywords) ==
    LET status == IF ~ValidKeywords(keywords) THEN "validation_error"
                  ELSE IF ~\E u \in users : u.id = user_id THEN "not_found"
                  ELSE "ok"
    IN  /\ NextId(profiles) <= MaxProfiles
        /\ reply' = [op |-> "create_search_profile", keywords |-> keywords,
                     status |-> status]
        /\ profiles' = IF status = "ok"
                       THEN profiles \cup
                            {Profile(NextId(profiles), user_id, keywords, NullNum, NullNum)}
                       ELSE profiles
        /\ UNCHANGED <<now, users, jobs, notifications, scraping_logs, sends,
                       ing, disp, sweep, loop, hash_seed>>

\* PUT /users/profiles/{profile_id}: every field of the body that is not
\* None overwrites the column; SearchProfileUpdate validates nothing
UpdateSearchProfile(profile_id, fields, keywords, is_active) ==
    LET found == {p \in profiles : p.id = profile_id}
        updated(p) == [p EXCEPT
            !.keywords = IF "keywords" \in fields THEN keywords ELSE @,
            !.is_active = IF "is_active" \in fields THEN is_active ELSE @]
    IN  /\ reply' = [op |-> "update_search_profile",
                     keywords |-> IF "keywords" \in fields THEN keywords ELSE <<>>,
                     status |-> IF found = {} THEN "not_found" ELSE "ok"]
        /\ profiles' = {IF p \in found THEN updated(p) ELSE p : p \in profiles}
        /\ UNCHANGED <<now, users, jobs, notifications, scraping_logs, sends,
                       ing, disp, sweep, loop, hash_seed>>

\* DELETE /users/profiles/{profile_id}
DeleteSearchProfile(profile_id) ==
    LET found == {p \in profiles : p.id = profile_id}
    IN  /\ reply' = [op |-> "delete_search_profile", keywords |-> <<>>,
                     status |-> IF found = {} THEN "not_found" ELSE "ok"]
        /\ profiles' = profiles \ found
        /\ UNCHANGED <<now, users, jobs, notifications, scraping_logs, sends,
                       ing, disp, sweep, loop, hash_seed>>


Init ==
    /\ now = 0
    /\ users = {[id |-> 1, is_active |-> TRUE]}
    /\ profiles = { Profile(1, 1, << <<"p", "y">> >>, 120000, NullNum),
                    Profile(2, 1, << <<"g", "o">> >>, NullNum, NullNum) }
    /\ jobs = {}
    /\ notifications = {}
    /\ sends = EmptyBag
    /\ ing = [a \in Ingestors |-> IdleSession]
    /\ disp = [w \in Dispatchers |-> IdleDispatcher]
    /\ sweep = [ran |-> FALSE, at |-> 0, committed |-> FALSE]
    /\ scraping_logs = {}
    /\ loop = [alive |-> TRUE,
               registry |-> [t \in Tasks |-> 1],
               batch |-> {},
               raised |-> FALSE,
               stop_requested |-> FALSE,
               response |-> "none"]
    /\ reply = NoRequest
    /\ hash_seed = FirstSeed

\* what one call of run_pending can find due: one task of T, or any of them
OneOf(T) == {{t} : t \in T}
AnyOf(T) == SUBSET T

\* the whole pipeline of one application instance, on its scheduler thread
Next ==
    \/ RunPending(OneOf({"run_job_scraping", "check_and_send_notifications"}))
    \/ StartIngest("sched", SmallBatch)
    \/ ProcessRecord("sched", {FALSE})
    \/ FinishSite("sched")
    \/ CommitIngest("sched")
    \/ StartCheck("sched")
    \/ NextProfile("sched")
    \/ FinishCheck("sched")
    \/ CreateNotification("sched")
    \/ SendEmail("sched")
    \/ RecordStatus("sched")
    \/ Advance(LookbackInstants)

Spec == Init /\ [][Next]_vars

\* ingestion alone, with batches that can repeat a key
NextIngest ==
    \/ RunPending(OneOf({"run_job_scraping"}))
    \/ StartIngest("sched", MaxBatch)
    \/ ProcessRecord("sched", BOOLEAN)
    \/ FinishSite("sched")
    \/ CommitIngest("sched")

SpecIngest == Init /\ [][NextIngest]_vars

\* a scheduled and an on-demand ingestion, interleaved
NextIngestRace ==
    \/ RunPending(OneOf({"run_job_scraping"}))
    \/ \E a \in Ingestors : StartIngest(a, SmallBatch)
    \/ \E a \in Ingestors : ProcessRecord(a, {FALSE})
    \/ \E a \in Ingestors : FinishSite(a)
    \/ \E a \in Ingestors : CommitIngest(a)

SpecIngestRace == Init /\ [][NextIngestRace]_vars

\* ingestion and the retention sweep over ninety days
NextRetention ==
    \/ RunPending(OneOf({"run_job_scraping", "cleanup_old_data"}))
    \/ StartIngest("sched", SmallBatch)
    \/ ProcessRecord("sched", {FALSE})
    \/ FinishSite("sched")
    \/ CommitIngest("sched")
    \/ CleanupOldData
    \/ Advance(Instants)

SpecRetention == Init /\ [][NextRetention]_vars

\* two instances dispatching against the same database
NextDispatchRace ==
    \/ RunPending(OneOf({"run_job_scraping", "check_and_send_notifications"}))
    \/ StartIngest("sched", SmallBatch)
    \/ ProcessRecord("sched", {FALSE})
    \/ FinishSite("sched")
    \/ CommitIngest("sched")
    \/ \E w \in Dispatchers : StartCheck(w)
    \/ \E w \in Dispatchers : NextProfile(w)
    \/ \E w \in Dispatchers : FinishCheck(w)
    \/ \E w \in Dispatchers : CreateNotification(w)
    \/ \E w \in Dispatchers : SendEmail(w)
    \/ \E w \in Dispatchers : RecordStatus(w)

SpecDispatchRace == Init /\ [][NextDispatchRace]_vars

\* one instance, and a user who marks notifications as read
NextInbox ==
    \/ RunPending(OneOf({"run_job_scraping", "check_and_send_notifications"}))
    \/ StartIngest("sched", SmallBatch)
    \/ ProcessRecord("sched", {FALSE})
    \/ FinishSite("sched")
    \/ CommitIngest("sched")
    \/ StartCheck("sched")
    \/ NextProfile("sched")
    \/ FinishCheck("sched")
    \/ CreateNotification("sched")
    \/ SendEmail("sched")
    \/ RecordStatus("sched")
    \/ \E id \in 1..MaxNotifications : MarkNotificationRead(id)

SpecInbox == Init /\ [][NextInbox]_vars

\* the scheduler thread with its three tasks, sessions that cannot be
\* opened, and the start / stop requests of the API; the sites have no
\* postings to show, so that the runs store their log rows only and the
\* notification check finds nothing to send
SchedulerThread ==
    \/ RunPending(AnyOf(Tasks))
    \/ StartIngest("sched", EmptyBatch)
    \/ FinishSite("sched")
    \/ CommitIngest("sched")
    \/ StartCheck("sched")
    \/ NextProfile("sched")
    \/ FinishCheck("sched")
    \/ CleanupOldData
    \/ \E t \in Tasks : TaskFailsToOpenSession(t)

NextScheduler ==
    \/ SchedulerThread
    \/ StopSchedulerRequest
    \/ StartSchedulerRequest

SpecScheduler == Init /\ [][NextScheduler]_vars

\* the thread that runs start() is a live thread: it goes on taking steps
SpecSchedulerLive == SpecScheduler /\ WF_vars(SchedulerThread)

\* the process ends and a new one starts: the interpreter draws a seed,
\* open sessions are lost, lifespan starts a new scheduler thread
Restart ==
    /\ \E seed \in HashSeeds : hash_seed' = seed
    /\ ing' = [a \in Ingestors |-> IdleSession]
    /\ disp' = [w \in Dispatchers |-> IdleDispatcher]
    /\ loop' = [alive |-> TRUE,
                registry |-> [t \in Tasks |-> 1],
                batch |-> {},
                raised |-> FALSE,
                stop_requested |-> FALSE,
                response |-> "none"]
    /\ UNCHANGED <<now, users, profiles, jobs, notifications, scraping_logs,
                   sends, sweep, reply>>

NextRestart ==
    \/ RunPending(OneOf({"run_job_scraping"}))
    \/ StartIngest("sched", SmallBatch)
    \/ ProcessRecord("sched", {FALSE})
    \/ FinishSite("sched")
    \/ CommitIngest("sched")
    \/ Restart

SpecRestart == Init /\ [][NextRestart]_vars

\* the matcher over profiles and postings of every salary shape: bounds a
\* profile can be created with (SearchProfileCreate: any number, or none),
\* and salaries as extract_salary_range returns them (both or neither)
ProfileBounds == {NullNum, 0, 100000}
PostingSalaries ==
    {<<NullNum, NullNum>>, <<90000, 95000>>, <<90000, 110000>>, <<120000, 140000>>}

Posting(id, site, salary) ==
    [CreateJobListing(Raw(site, <<"P", "y">>, <<"A">>, salary[1], salary[2], FirstSeed), 0)
        EXCEPT !.id = id]

LogRow(id, site) ==
    [id |-> id, source_site |-> site, jobs_found |-> 1, jobs_new |-> 1,
     jobs_updated |-> 0, errors |-> <<>>, started_at |-> 0, completed_at |-> 0]

\* the state after one committed run that found one posting on each site
InitMatch ==
    /\ now = 0
    /\ users = {[id |-> 1, is_active |-> TRUE]}
    /\ \E smin, smax \in ProfileBounds :
          profiles = {Profile(1, 1, << <<"p", "y">> >>, smin, smax)}
    /\ \E s1, s2 \in PostingSalaries :
          jobs = {Posting(1, "linkedin", s1),
                  Posting(2, "indeed", s2)}
    /\ notifications = {}
    /\ scraping_logs = {LogRow(1, "linkedin"), LogRow(2, "indeed")}
    /\ sends = EmptyBag
    /\ ing = [a \in Ingestors |-> IdleSession]
    /\ disp = [w \in Dispatchers |-> IdleDispatcher]
    /\ sweep = [ran |-> FALSE, at |-> 0, committed |-> FALSE]
    /\ loop = [alive |-> TRUE,
               registry |-> [t \in Tasks |-> 1],
               batch |-> {},
               raised |-> FALSE,
               stop_requested |-> FALSE,
               response |-> "none"]
    /\ reply = NoRequest
    /\ hash_seed = FirstSeed

NextMatch ==
    \/ RunPending(OneOf({"check_and_send_notifications"}))
    \/ StartCheck("sched")
    \/ NextProfile("sched")
    \/ FinishCheck("sched")
    \/ CreateNotification("sched")
    \/ SendEmail("sched")
    \/ RecordStatus("sched")

SpecMatch == InitMatch /\ [][NextMatch]_vars

\* the tables as dispatch can find them: a profile switched off through the
\* update endpoint, an owner whose is_active column is false, an owner
\* whose row is gone
OwnerStates == {"active", "inactive", "missing"}
UserRow(id, state) ==
    IF state = "missing" THEN {} ELSE {[id |-> id, is_active |-> state = "active"]}

InitOwners ==
    /\ now = 0
    /\ \E s1, s2 \in OwnerStates : users = UserRow(1, s1) \cup UserRow(2, s2)
    /\ \E a1, a2 \in BOOLEAN :
          profiles = {[Profile(1, 1, << <<"p", "y">> >>, NullNum, NullNum)
                          EXCEPT !.is_active = a1],
                      [Profile(2, 2, << <<"p", "y">> >>, NullNum, NullNum)
                          EXCEPT !.is_active = a2]}
    /\ jobs = {Posting(1, "linkedin", <<90000, 110000>>)}
    /\ notifications = {}
    /\ scraping_logs = {LogRow(1, "linkedin"), LogRow(2, "indeed")}
    /\ sends = EmptyBag
    /\ ing = [a \in Ingestors |-> IdleSession]
    /\ disp = [w \in Dispatchers |-> IdleDispatcher]
    /\ sweep = [ran |-> FALSE, at |-> 0, committed |-> FALSE]
    /\ loop = [alive |-> TRUE,
               registry |-> [t \in Tasks |-> 1],
               batch |-> {},
               raised |-> FALSE,
               stop_requested |-> FALSE,
               response |-> "none"]
    /\ reply = NoRequest
    /\ hash_seed = FirstSeed

SpecOwners == InitOwners /\ [][NextMatch]_vars

\* the scheduler thread is a live thread: the dispatch task, once due, is
\* started and each of its steps is taken
SpecOwnersLive == SpecOwners /\ WF_vars(NextMatch)

\* the matcher over keyword lists as a client can send them (any strings,
\* in any case, "_" and "%" included) and postings of every text
KeywordLists ==
    { << <<"p", "y">> >>, << <<"P", "Y">> >>, << <<"g", "o">>, <<"p", "y">> >>,
      << <<"p", "_">> >>, << <<"y", "%", "o">> >> }
Texts == {<<>>, <<"P", "y">>, <<"G", "o">>, <<"y", "G", "o">>}

InitKeywords ==
    /\ now = 0
    /\ users = {[id |-> 1, is_active |-> TRUE]}
    /\ \E k \in KeywordLists : profiles = {Profile(1, 1, k, NullNum, NullNum)}
    /\ \E t, d, c \in Texts :
          jobs = {[Posting(1, "linkedin", <<90000, 110000>>)
                      EXCEPT !.title = t, !.description = d, !.company = c]}
    /\ notifications = {}
    /\ scraping_logs = {LogRow(1, "linkedin"), LogRow(2, "indeed")}
    /\ sends = EmptyBag
    /\ ing = [a \in Ingestors |-> IdleSession]
    /\ disp = [w \in Dispatchers |-> IdleDispatcher]
    /\ sweep = [ran |-> FALSE, at |-> 0, committed |-> FALSE]
    /\ loop = [alive |-> TRUE,
               registry |-> [t \in Tasks |-> 1],
               batch |-> {},
               raised |-> FALSE,
               stop_requested |-> FALSE,
               response |-> "none"]
    /\ reply = NoRequest
    /\ hash_seed = FirstSeed

SpecKeywords == InitKeywords /\ [][NextMatch]_vars

\* keyword lists a client can send: none, one keyword
KeywordInputs == {<<>>, << <<"p", "y">> >>}

InitProfiles ==
    /\ now = 0
    /\ users = {[id |-> 1, is_active |-> TRUE]}
    /\ profiles = {}
    /\ jobs = {Posting(1, "linkedin", <<90000, 110000>>)}
    /\ notifications = {}
    /\ scraping_logs = {LogRow(1, "linkedin"), LogRow(2, "indeed")}
    /\ sends = EmptyBag
    /\ ing = [a \in Ingestors |-> IdleSession]
    /\ disp = [w \in Dispatchers |-> IdleDispatcher]
    /\ sweep = [ran |-> FALSE, at |-> 0, committed |-> FALSE]
    /\ loop = [alive |-> TRUE,
               registry |-> [t \in Tasks |-> 1],
               batch |-> {},
               raised |-> FALSE,
               stop_requested |-> FALSE,
               response |-> "none"]
    /\ reply = NoRequest
    /\ hash_seed = FirstSeed

NextProfiles ==
    \/ \E u \in {1, 2}, k \in KeywordInputs : CreateSearchProfile(u, k)
    \/ \E id \in 1..MaxProfiles, f \in SUBSET {"keywords", "is_active"},
          k \in KeywordInputs, act \in BOOLEAN : UpdateSearchProfile(id, f, k, act)
    \/ \E id \in 1..MaxProfiles : DeleteSearchProfile(id)

SpecProfiles == InitProfiles /\ [][NextProfiles]_vars

(***************************************************************************)
(* Properties                                                              *)
(***************************************************************************)
RowsWithKey(rows, k) == {j \in rows : j.external_id = k}
CatalogKeys == {r.external_id : r \in UNION {Catalog(s, k) : s \in SiteSet, k \in HashSeeds}}
StagedKeys(r, site) ==
    {r.pending[i].external_id : i \in {x \in 1..Len(r.pending) : r.pending[x].source_site = site}}
    \cup {r.dirty[i].external_id : i \in {x \in 1..Len(r.dirty) : r.dirty[x].source_site = site}}
InFlight(w) == disp[w].pc \in {"send", "record"}
SightedKeys(r) ==
    UNION {{r.results[s][i].external_id : i \in 1..Len(r.results[s])} : s \in SiteSet}

\* C1: dispatching the same (user, profile, posting) triple more than once
\* makes exactly one send attempt in total; the later call sends nothing.
C1_IdempotentDispatch ==
    \A t \in BagToSet(sends) : CopiesIn(t, sends) <= 1

\* C2: in every reachable state at most one Notification row exists for a
\* (user_id, search_profile_id, job_listing_id) triple.
C2_AtMostOneRecordPerTriple ==
    \A n1, n2 \in notifications : TripleOf(n1) = TripleOf(n2) => n1.id = n2.id

\* C3: when the matching+dispatch task runs again and the matcher returns a
\* posting whose triple already has a sent Notification, no send is
\* attempted for it.
C3_NoResendInsideLookback ==
    \A w \in Dispatchers :
        disp[w].pc = "send" =>
            ~\E n \in notifications :
                /\ n.id # disp[w].notification
                /\ TripleOf(n) = CurrentTriple(w)
                /\ n.status = "sent"

\* C4: no two committed JobListing rows share an external_id, and a key that
\* has a row keeps that one row (same id) through every later ingestion run:
\* a re-sighting updates it in place.
C4_UniqueExternalId ==
    /\ [](\A j1, j2 \in jobs : j1.external_id = j2.external_id => j1 = j2)
    /\ [][\A j \in jobs :
            \E j2 \in jobs' : j2.external_id = j.external_id /\ j2.id = j.id]_vars

\* a run that re-sighted a stored key has returned its summary, and the key
\* still has its single row
C4_Witness ==
    /\ ing["sched"].pc = "done"
    /\ ing["sched"].total_updated >= 2
    /\ Cardinality(RowsWithKey(jobs,
           ExternalId("linkedin", <<"P", "y">>, <<"A">>, <<"A">>, hash_seed))) = 1

\* C5: when one site's adapter fails and another's succeeds in a run, every
\* record of the succeeding site that was processed without error is in the
\* committed store once the run is over.
C5_SourceFailureIsolated ==
    [][\A a \in Ingestors : \A sa, sb \in SiteSet :
          ( /\ ReadyToCommit(a)
            /\ ing'[a].pc \in {"done", "failed"}
            /\ ing[a].fetch[sa].raised
            /\ ~ing[a].fetch[sb].raised )
          => StagedKeys(ing[a], sb) \subseteq Keys(jobs')]_vars

\* C6: when a site's adapter fails in a run, the error list the run returns
\* holds an entry attributed to that site.
C6_SourceErrorReported ==
    [][\A a \in Ingestors : \A s \in SiteSet :
          ( /\ ReadyToCommit(a)
            /\ ing'[a].pc = "done"
            /\ ing[a].fetch[s].raised )
          => \E i \in 1..Len(ing'[a].errors) : ing'[a].errors[i].site = s]_vars

\* C7: once the retention sweep has run, no posting that was older than the
\* 90-day horizon at sweep time is left in the store.
C7_RetentionRemoval ==
    sweep.ran => OldJobs(jobs, sweep.at) = {}

\* C8: a posting row disappears only in a step of the sweeper, and only when
\* its scraped_at is older than the 90-day horizon at that moment.
C8_RetentionSafety ==
    [][\A j \in jobs :
          (~\E j2 \in jobs' : j2.id = j.id)
          => /\ j \in OldJobs(jobs, now)
             /\ UNCHANGED <<ing, disp, reply, hash_seed>>]_vars

\* the sweep has run on day 91 and a posting ingested 89 days earlier has
\* been updated by a later run without losing its row
C8_Witness ==
    /\ sweep.ran
    /\ sweep.at = 91
    /\ now = 91
    /\ ing["sched"].pc = "done"
    /\ ing["sched"].total_updated >= 1
    /\ \E j \in jobs : j.scraped_at = 91
    /\ \E j \in jobs : j.scraped_at = 2

\* C9: when two dispatch attempts for the same triple are in progress at the
\* same time, the table holds at most one Notification row for the triple
\* and at most one send attempt has been made for it.
C9_ConcurrentDispatchSafe ==
    \A w1, w2 \in Dispatchers :
        ( /\ w1 # w2
          /\ InFlight(w1)
          /\ InFlight(w2)
          /\ CurrentTriple(w1) = CurrentTriple(w2) )
        => /\ Cardinality(RowsFor(CurrentTriple(w1))) <= 1
           /\ CopiesIn(CurrentTriple(w1), sends) <= 1

\* C10: however a scheduled and an on-demand ingestion interleave, the
\* committed store holds at most one row per external_id.
C10_ConcurrentIngestUnique ==
    \A k \in CatalogKeys : Cardinality(RowsWithKey(jobs, k)) <= 1

\* both invocations sighted the absent key: one committed its new row, the
\* other's commit was refused, and the key has one row
C10_Witness ==
    /\ ing["api"].pc = "done"
    /\ ing["api"].total_new = 1
    /\ ing["sched"].pc = "failed"
    /\ Cardinality(jobs) = 1

\* C11: the store changes only in the commit step of a run, the steps that
\* stage a run's records leave it as it was, and the commit step makes every
\* insert and update the run staged, for all sites, visible at once.
C11_AtomicVisibility ==
    [][/\ jobs' # jobs =>
            \E a \in Ingestors : ing[a].pc = "run" /\ ing'[a].pc = "done"
       /\ \A a \in Ingestors :
            (ing[a].pc = "run" /\ ing'[a].pc = "run" /\ ing'[a] # ing[a])
            => jobs' = jobs
       /\ \A a \in Ingestors :
            (ing[a].pc = "run" /\ ing'[a].pc = "done")
            => /\ SightedKeys(ing[a]) \subseteq Keys(jobs')
               /\ \A i \in 1..Len(ing[a].pending) :
                     ing[a].pending[i].external_id \in Keys(jobs') \ Keys(jobs)
               /\ \A i \in 1..Len(ing[a].dirty) :
                     \E j \in jobs' :
                         /\ j.id = ing[a].dirty[i].id
                         /\ j.scraped_at = ing[a].dirty[i].scraped_at]_vars

\* a run that sighted one new posting on each site has committed both rows
\* while another instance was in the middle of its notification check and
\* had found nothing to notify
C11_Witness ==
    /\ ing["sched"].pc = "done"
    /\ ing["sched"].total_new = 2
    /\ Cardinality(jobs) = 2
    /\ disp["peer"].pc = "loop"
    /\ disp["peer"].profile # NoProfile
    /\ disp["peer"].new_jobs = <<>>
    /\ notifications = {}

\* C12: when the final commit of a run fails, the store holds after the call
\* exactly the postings and ScrapingLog rows it held before it, and the
\* caller gets the exception and no summary.
C12_CommitFailureRollsBack ==
    [][\A a \in Ingestors :
          ( /\ ing[a].pc = "run"
            /\ ing'[a].pc # "run"
            /\ UniqueViolation(jobs, ing[a].pending) )
          => /\ jobs' = jobs
             /\ scraping_logs' = scraping_logs
             /\ ing'[a] = [IdleSession EXCEPT !.pc = "failed"]]_vars

\* a first run has committed a posting and its two log rows; a later run,
\* whose batch repeated an absent key, has failed and left both tables alone
C12_Witness ==
    /\ ing["sched"].pc = "failed"
    /\ Cardinality(jobs) = 1
    /\ Cardinality(scraping_logs) = Len(Sites)

\* the step in which instance w runs _find_new_jobs_for_profile for the
\* next profile of its list, and what that call returned
MatcherStep(w) ==
    /\ disp[w].pc = "loop"
    /\ Len(disp'[w].profiles) < Len(disp[w].profiles)
    /\ disp'[w].profile = Head(disp[w].profiles)
ReturnedIds(w) == {disp'[w].new_jobs[i].id : i \in 1..Len(disp'[w].new_jobs)}
PassesOtherFilters(j, p) ==
    /\ j.is_active
    /\ j.scraped_at >= now - LookbackDays
    /\ KeywordFilter(j, p)
    /\ LocationFilter(j, p)
    /\ JobTypeFilter(j, p)
    /\ ExperienceFilter(j, p)
HasBound(p) == p.salary_min # NullNum \/ p.salary_max # NullNum
Overlap(j, p) ==
    /\ p.salary_min # NullNum => j.salary_max >= p.salary_min
    /\ p.salary_max # NullNum => j.salary_min <= p.salary_max

\* C13: for a profile with a salary bound set, a posting with both salary
\* fields set (and passing the other filters) is returned by the matcher
\* exactly when its salary interval meets the profile's: salary_max >=
\* profile.salary_min where that is set, salary_min <= profile.salary_max
\* where that is set.
C13_SalaryOverlap ==
    [][\A w \in Dispatchers :
          MatcherStep(w) =>
            LET p == Head(disp[w].profiles)
            IN  \A j \in jobs :
                  ( /\ HasBound(p)
                    /\ j.salary_min # NullNum
                    /\ j.salary_max # NullNum
                    /\ PassesOtherFilters(j, p) )
                  => (j.id \in ReturnedIds(w) <=> Overlap(j, p))]_vars

\* C14: a posting with an unset salary field is never returned for a
\* profile that has a salary bound set, a bound of 0 included; and with both
\* bounds unset the salary of a posting plays no part.
C14_UnknownSalaryNeverMatches ==
    [][\A w \in Dispatchers :
          MatcherStep(w) =>
            LET p == Head(disp[w].profiles)
            IN  \A j \in jobs :
                  /\ ( /\ HasBound(p)
                       /\ (j.salary_min = NullNum \/ j.salary_max = NullNum) )
                     => j.id \notin ReturnedIds(w)
                  /\ ( /\ ~HasBound(p)
                       /\ PassesOtherFilters(j, p) )
                     => j.id \in ReturnedIds(w)]_vars

\* a task has started and not yet returned
Executing(t) ==
    CASE t = "run_job_scraping" -> ~IngestReturned("sched")
      [] t = "check_and_send_notifications" -> disp["sched"].pc # "idle"
      [] OTHER -> FALSE

\* C15: an exception that leaves a scheduled task, the failure to open a
\* database session included, does not end the loop of start(): the thread
\* stays alive with its jobs still registered, and a later run_pending
\* collects due jobs again (as long as nobody asks for a stop).
C15_SchedulerResilience ==
    /\ [](loop.raised => loop.alive)
    /\ [][(loop'.raised /\ loop'.batch = {} /\ loop.batch # {})
            => (loop'.alive /\ loop'.registry = loop.registry)]_vars
    /\ []((loop.raised /\ loop.batch = {} /\ SchedulerThreadFree)
            => <>(loop.batch # {} \/ loop.stop_requested))

\* a task could not open its session, and afterwards the scraping task has
\* started and is in progress
C15_Witness ==
    /\ loop.raised
    /\ loop.alive
    /\ ~loop.stop_requested
    /\ ing["sched"].pc = "run"

\* C16: after a stop request the loop of start() eventually terminates.
C16_StopHaltsLoop ==
    loop.stop_requested ~> ~loop.alive

\* task t begins in this step
Begins(t) ==
    CASE t = "run_job_scraping" ->
            IngestReturned("sched") /\ ing'["sched"].pc = "run"
      [] t = "check_and_send_notifications" ->
            disp["sched"].pc = "idle" /\ disp'["sched"].pc # "idle"
      [] OTHER ->
            t \in loop.batch /\ loop'.batch = loop.batch \ {t}
                             /\ ing' = ing /\ disp' = disp

\* C17: whatever start and stop requests arrive, at most one of the three
\* scheduled tasks is executing at any moment, and a task begins only when
\* no task, itself included, is still executing.
C17_TasksNeverOverlap ==
    /\ [](Cardinality({t \in Tasks : Executing(t)}) <= 1)
    /\ [][\A t \in Tasks : Begins(t) => \A u \in Tasks : ~Executing(u)]_vars

\* a stop request and then a start request (refused) have been handled,
\* and the scraping task, collected by run_pending before the stop, is
\* executing alone after a first run has committed its log rows
C17_Witness ==
    /\ loop.stop_requested
    /\ loop.response = "start_refused"
    /\ Executing("run_job_scraping")
    /\ ~Executing("check_and_send_notifications")
    /\ Cardinality(scraping_logs) = Len(Sites)

\* C18: a Notification's status is always pending, sent or failed, and the
\* only status changes ever made are pending -> sent and pending -> failed.
C18_StatusStateMachine ==
    /\ [](\A n \in notifications : n.status \in {"pending", "sent", "failed"})
    /\ [][\A n \in notifications : \A n2 \in notifications' :
            (n2.id = n.id /\ n2.status # n.status)
            => (n.status = "pending" /\ n2.status \in {"sent", "failed"})]_vars

\* C19: when a dispatch call that created a record returns, the record is
\* sent if the sender reported success and failed if it reported failure;
\* no step removes a record, and a record is pending only while the call
\* that created it is still in progress.
C19_DeliveryOutcome ==
    /\ [][\A w \in Dispatchers :
            (disp[w].pc = "record" /\ disp'[w].pc = "loop")
            => \E n \in notifications' :
                  /\ n.id = disp[w].notification
                  /\ n.status = IF disp[w].success THEN "sent" ELSE "failed"]_vars
    /\ [][\A n \in notifications : \E n2 \in notifications' : n2.id = n.id]_vars
    /\ [](\A n \in notifications :
            n.status = "pending"
            => \E w \in Dispatchers : InFlight(w) /\ disp[w].notification = n.id)

\* both instances have returned from their calls: one send succeeded and
\* one failed, both records are kept, none is pending
C19_Witness ==
    /\ \A w \in Dispatchers : ~InFlight(w)
    /\ \E n \in notifications : n.status = "sent"
    /\ \E n \in notifications : n.status = "failed"
    /\ \A n \in notifications : n.status # "pending"

\* C20: once a send for a triple has failed and its record is failed, no
\* later dispatch call makes another send attempt for that triple.
C20_NoAutomaticRetry ==
    \A w \in Dispatchers :
        disp[w].pc = "send" =>
            ~\E n \in notifications :
                /\ n.id # disp[w].notification
                /\ TripleOf(n) = CurrentTriple(w)
                /\ n.status = "failed"

\* the step in which the call of caller a ends, by return or by exception
CallEnds(a) == ing[a].pc = "run" /\ ing'[a].pc # "run"
RecordErrors(r) == {i \in 1..Len(r.errors) : r.errors[i].what = "record"}

\* C21: when the processing of a record raised in a run, the error is in
\* the error list the run returns, and every other record that was staged
\* from the batch of that site is in the committed store after the run.
C21_RecordFailureIsolated ==
    [][\A a \in Ingestors :
          (CallEnds(a) /\ RecordErrors(ing[a]) # {})
          => /\ ing'[a].pc = "done"
             /\ ing'[a].errors = ing[a].errors
             /\ \A i \in RecordErrors(ing[a]) :
                   StagedKeys(ing[a], ing[a].errors[i].site) \subseteq Keys(jobs')]_vars

\* C22: a call that commits adds exactly one ScrapingLog row for every
\* configured site, whether the site returned records, returned nothing or
\* failed, and no other step adds a ScrapingLog row.
C22_OneLogPerSite ==
    [][LET added == scraping_logs' \ scraping_logs
       IN  IF \E a \in Ingestors : CallEnds(a) /\ ing'[a].pc = "done"
           THEN \A s \in SiteSet : Cardinality({l \in added : l.source_site = s}) = 1
           ELSE added = {}]_vars
C22_Witness ==
    /\ ing["sched"].pc = "done"
    /\ Cardinality(scraping_logs) = Len(Sites)
    /\ \E l \in scraping_logs : l.jobs_found = 0
    /\ \E l \in scraping_logs : l.jobs_found > 0

\* number of records the adapters handed to the run
RECURSIVE FoundUpTo(_, _)
FoundUpTo(r, n) == IF n = 0 THEN 0 ELSE Len(r.results[Sites[n]]) + FoundUpTo(r, n - 1)

\* C23: at the end of a run every record that was processed while its
\* external_id was absent from the store is an active row of the store and
\* is counted in total_new, every record processed while its external_id
\* was present is counted in total_updated, and total_found is the number
\* of records fetched.
C23_IngestionAccounting ==
    [][\A a \in Ingestors :
          CallEnds(a)
          => /\ \A i \in 1..Len(ing[a].pending) :
                   \E j \in jobs' : /\ j.external_id = ing[a].pending[i].external_id
                                    /\ j.is_active
             /\ ing'[a].pc = "done"
             /\ ing'[a].total_new = Len(ing[a].pending)
             /\ ing'[a].total_updated = Len(ing[a].dirty)
             /\ ing'[a].total_found = FoundUpTo(ing[a], Len(Sites))]_vars

\* C24: every Notification row and every message sent belongs to a profile
\* that is active and to an owning user who exists and is active.
C24_OnlyActiveOwners ==
    LET alerted == {TripleOf(n) : n \in notifications} \cup BagToSet(sends)
    IN  \A t \in alerted :
          /\ \E p \in profiles : p.id = t.search_profile_id /\ p.is_active
          /\ \E u \in users : u.id = t.user_id /\ u.is_active
C24_Witness ==
    /\ disp["sched"].pc = "idle"
    /\ \E n \in notifications : n.status = "sent"
    /\ \E p \in profiles :
          ~p.is_active \/ ~\E u \in users : u.id = p.user_id /\ u.is_active

\* C28: a request to create a profile with an empty keyword list is
\* answered with a validation error and leaves the search_profiles table
\* as it was.
C28_EmptyKeywordsRejected ==
    [][(reply' # reply /\ reply'.op = "create_search_profile" /\ reply'.keywords = <<>>)
       => (reply'.status = "validation_error" /\ profiles' = profiles)]_vars
C28_Witness ==
    /\ reply.op = "create_search_profile"
    /\ reply.keywords = <<>>
    /\ reply.status = "validation_error"

Contains(s, pat) ==
    \E i \in 0..(Len(s) - Len(pat)) :
        \A k \in 1..Len(pat) : s[i + k] = pat[k]
OccursIn(keyword, text) == Contains(LowerStr(text), LowerStr(keyword))
PassesAllButKeywords(j, p) ==
    /\ j.is_active
    /\ j.scraped_at >= now - LookbackDays
    /\ LocationFilter(j, p)
    /\ JobTypeFilter(j, p)
    /\ ExperienceFilter(j, p)
    /\ SalaryFilter(j, p)

\* C26: for a profile with a non-empty keyword list, a posting that passes
\* the other filters is returned by the matcher exactly when one of the
\* keywords occurs, without regard to case, in its title, its description
\* or its company.
C26_KeywordFilter ==
    [][\A w \in Dispatchers :
          MatcherStep(w) =>
            LET p == Head(disp[w].profiles)
            IN  \A j \in jobs :
                  (p.keywords # <<>> /\ PassesAllButKeywords(j, p))
                  => (j.id \in ReturnedIds(w)
                      <=> \E i \in 1..Len(p.keywords) :
                            \/ OccursIn(p.keywords[i], j.title)
                            \/ OccursIn(p.keywords[i], j.description)
                            \/ OccursIn(p.keywords[i], j.company))]_vars

\* C27: a sweep that fails leaves the postings and the notifications as
\* they were, and a sweep that commits removes the old postings and the old
\* notifications in the same step.
C27_SweepAtomic ==
    [][Begins("cleanup_old_data")
       => IF sweep'.committed
          THEN /\ jobs' = jobs \ OldJobs(jobs, now)
               /\ notifications' = notifications \ OldNotifications(notifications, now)
          ELSE /\ jobs' = jobs
               /\ notifications' = notifications]_vars
C27_Witness ==
    /\ sweep.ran
    /\ ~sweep.committed
    /\ now = sweep.at
    /\ OldJobs(jobs, sweep.at) # {}
    /\ loop.batch = {}

\* keys the run staged more than once as a row to insert
RepeatedKeys(r) ==
    {k \in CatalogKeys :
        Cardinality({i \in 1..Len(r.pending) : r.pending[i].external_id = k}) > 1}

\* C29: a run that processed two records of the same external_id that was
\* absent from the store ends with a commit, and the store then holds
\* exactly one row of that key.
C29_WithinRunDuplicates ==
    [][\A a \in Ingestors :
          (CallEnds(a) /\ RepeatedKeys(ing[a]) # {})
          => /\ ing'[a].pc = "done"
             /\ \A k \in RepeatedKeys(ing[a]) :
                   Cardinality(RowsWithKey(jobs', k)) = 1]_vars

\* keys the run staged as rows to insert that another run has committed
\* since
OvertakenKeys(r) ==
    {r.pending[i].external_id : i \in 1..Len(r.pending)} \cap Keys(jobs)

\* C30: when a run reaches its commit after another run has committed a
\* key that it staged as new, its commit succeeds too and every posting it
\* staged is in the store.
C30_ConcurrentIngestionCompletes ==
    [][\A a \in Ingestors :
          (CallEnds(a) /\ OvertakenKeys(ing[a]) # {})
          => /\ ing'[a].pc = "done"
             /\ \A s \in SiteSet : StagedKeys(ing[a], s) \subseteq Keys(jobs')]_vars

\* the step in which dispatcher w attempts its send
Attempts(w) == disp[w].pc = "send" /\ disp'[w].pc = "record"

\* C31: when a dispatch call attempts its send, the pending Notification
\* row of the triple is already in the store; the call makes one attempt
\* (the count of attempts for the triple grows by one in that step, the
\* call then stores the outcome and returns), and no other step sends.
C31_PendingBeforeSend ==
    [][/\ \A w \in Dispatchers :
            /\ Attempts(w) =>
                  /\ \E n \in notifications :
                        /\ n.id = disp[w].notification
                        /\ TripleOf(n) = CurrentTriple(w)
                        /\ n.status = "pending"
                  /\ sends' = sends (+) SetToBag({CurrentTriple(w)})
            /\ disp[w].pc = "send" => disp'[w].pc \in {"send", "record"}
            /\ disp[w].pc = "record" => disp'[w].pc \in {"record", "loop"}
            /\ disp'[w].pc = "record" => disp[w].pc \in {"send", "record"}
       /\ (\A w \in Dispatchers : ~Attempts(w)) => sends' = sends]_vars
C31_Witness ==
    /\ disp["sched"].pc = "record"
    /\ ~disp["sched"].success
    /\ CopiesIn(CurrentTriple("sched"), sends) = 1
    /\ \E n \in notifications :
          n.id = disp["sched"].notification /\ n.status = "pending"

\* a call of run_pending finds jobs that are due
NewTick == loop.batch = {} /\ loop'.batch # {}

\* C32: once stop has returned, no later call of run_pending starts a task;
\* the stop request leaves the task that is executing as it is, and that
\* task goes on to its commit.
C32_CooperativeStop ==
    /\ [][loop.stop_requested => ~NewTick]_vars
    /\ [][(loop'.stop_requested /\ ~loop.stop_requested)
            => (ing' = ing /\ disp' = disp /\ loop'.batch = loop.batch)]_vars
    /\ (loop.stop_requested /\ ing["sched"].pc = "run") ~> (ing["sched"].pc = "done")
C32_Witness ==
    /\ loop.stop_requested
    /\ loop.response = "stop_ok"
    /\ ing["sched"].pc = "run"
    /\ ing["sched"].si > Len(Sites)
    /\ scraping_logs = {}

SameIdentity(j, k) ==
    /\ k.id = j.id
    /\ k.external_id = j.external_id
    /\ k.source_site = j.source_site
    /\ k.is_active = j.is_active
StagedUpdates(r, id) == {i \in 1..Len(r.dirty) : r.dirty[i].id = id}

\* C33: a record whose external_id is in the store is staged as the stored
\* row with the same id, external_id, source_site and is_active and with
\* scraped_at set to the current time; the commit of the run replaces the
\* row by the staged one and adds no row of that key; no other step
\* changes a stored row.
C33_UpdateFrame ==
    [][/\ \A a \in Ingestors :
            Len(ing'[a].dirty) > Len(ing[a].dirty) =>
               LET d == ing'[a].dirty[Len(ing'[a].dirty)]
               IN  /\ \E j \in jobs : SameIdentity(j, d)
                   /\ d.scraped_at = now
       /\ \A j \in jobs :
            /\ Cardinality(RowsWithKey(jobs', j.external_id)) = 1
            /\ \E k \in jobs' :
                  /\ SameIdentity(j, k)
                  /\ IF \E a \in Ingestors : /\ CallEnds(a)
                                             /\ ing'[a].pc = "done"
                                             /\ StagedUpdates(ing[a], j.id) # {}
                     THEN \E a \in Ingestors :
                            \E i \in StagedUpdates(ing[a], j.id) : k = ing[a].dirty[i]
                     ELSE k = j]_vars
C33_Witness ==
    /\ now = 2
    /\ ing["sched"].pc = "done"
    /\ ing["sched"].total_updated >= 1
    /\ \E j \in jobs : j.scraped_at = 2
    /\ \E j \in jobs : j.scraped_at = 0

\* C34: in the step that moves a Notification from pending to sent or to
\* failed, its sent_at becomes the time of that step.
C34_SentAtRecordsTransition ==
    [][\A n \in notifications :
          \A m \in notifications' :
             (m.id = n.id /\ n.status = "pending" /\ m.status \in {"sent", "failed"})
             => m.sent_at = now]_vars

\* the dispatch task has fired and has profile p still to handle, posting
\* j is active, inside the lookback window and matches p, the owner of p
\* is active, and the table has room for the rows of this run
AwaitsNotification(p, j) ==
    /\ disp["sched"].pc = "loop"
    /\ \E i \in 1..Len(disp["sched"].profiles) : disp["sched"].profiles[i].id = p
    /\ \E q \in profiles : /\ q.id = p
                            /\ q.is_active
                            /\ \E u \in users : u.id = q.user_id /\ u.is_active
                            /\ \E k \in jobs : k.id = j /\ Matches(k, q, now)
    /\ Cardinality(notifications) + Cardinality(profiles) * Cardinality(jobs)
          <= MaxNotifications
Notified(p, j) ==
    \E n \in notifications : n.search_profile_id = p /\ n.job_listing_id = j

\* C35: whenever the dispatch task fires while an active posting matches an
\* active profile of an active user inside the lookback window, a
\* Notification row for that profile and posting eventually exists.
C35_EventualNotification ==
    \A p \in 1..MaxProfiles : \A j \in 1..MaxProfiles :
        AwaitsNotification(p, j) ~> Notified(p, j)
C35_Witness ==
    /\ disp["sched"].pc = "idle"
    /\ \A p \in profiles : Notified(p.id, 1)
    /\ \A n \in notifications : n.status = "failed"

SamePosting(j, k) ==
    /\ j.source_site = k.source_site
    /\ j.title = k.title
    /\ j.company = k.company
    /\ j.location = k.location

\* C36: two rows of the store for the same posting (same site, title,
\* company and location) have the same external_id, hence are one row: a
\* posting sighted again, after a restart too, is not inserted again.
C36_StableExternalKey ==
    \A j, k \in jobs : SamePosting(j, k) => (j.external_id = k.external_id /\ j.id = k.id)

\* a start request is answered in this step
StartAnswered ==
    /\ loop'.response \in {"start_ok", "start_refused"}
    /\ loop'.response # loop.response

\* C37: once a stop request has been processed the status reports the
\* scheduler as not running, and a start request that follows is accepted
\* and leaves each of the three tasks registered exactly once.
C37_StatusAndRestart ==
    [][/\ loop.stop_requested => ~SchedulerRunning
       /\ (loop.stop_requested /\ StartAnswered)
            => /\ loop'.response = "start_ok"
               /\ \A t \in Tasks : loop'.registry[t] = 1]_vars

\* C38: every error recorded in the ScrapingLog row of a site was raised
\* while that site was processed.
C38_PerSourceErrors ==
    \A l \in scraping_logs :
        \A i \in 1..Len(l.errors) : l.errors[i].site = l.source_site

RECURSIVE SumOver(_, _)
SumOver(rows, field) ==
    IF rows = {} THEN 0
    ELSE LET row == CHOOSE x \in rows : TRUE
         IN  row[field] + SumOver(rows \ {row}, field)

\* C39: the summary of a run that commits satisfies total_jobs_found =
\* total_jobs_new + total_jobs_updated + number of record errors, and each
\* total is the sum of that count over the ScrapingLog rows of the run.
C39_SummaryAccounting ==
    [][\A a \in Ingestors :
          (CallEnds(a) /\ ing'[a].pc = "done") =>
            LET r == ing'[a]
                rows == scraping_logs' \ scraping_logs
            IN  /\ r.total_found = r.total_new + r.total_updated + Len(r.errors)
                /\ r.total_found = SumOver(rows, "jobs_found")
                /\ r.total_new = SumOver(rows, "jobs_new")
                /\ r.total_updated = SumOver(rows, "jobs_updated")]_vars
C39_Witness ==
    /\ ing["sched"].pc = "done"
    /\ Len(ing["sched"].errors) = 1
    /\ ing["sched"].total_new = 1
    /\ ing["sched"].total_updated = 1
    /\ ing["sched"].total_found = 3

\* C40: every row of the search_profiles table has a non-empty keyword
\* list, whatever requests to create, update and delete profiles were made.
C40_KeywordsNeverEmpty ==
    \A p \in profiles : p.keywords # <<>>

====
